---------------------------- MODULE Spec2Model ----------------------------
(***************************************************************************)
(* Model of opendeplete's depletion chain (source/depletion_chain.py):     *)
(* DepletionChain.xml_read, DepletionChain.form_matrix,                    *)
(* DepletionChain.nuc_by_ind and matrix_wrapper.                           *)
(*                                                                         *)
(* Conventions                                                             *)
(*  - Python None is the empty tuple <<>>; an optional number v is <<v>>   *)
(*    (an absent XML attribute, an unset int field).  A list that is None  *)
(*    and an empty list are both <<>>.                                     *)
(*  - Python indices are 0-based and are kept 0-based in every dict and    *)
(*    index field; a Python list l is a TLA+ sequence, l[p] is l[p+1].     *)
(*  - Reals are fixed-point integers: branching ratios and yield           *)
(*    fractions are numerators over Den, math.log(2) is Log2 time units,   *)
(*    and a matrix entry holds Den times its real value, so that every     *)
(*    product and sum of form_matrix is exact.                             *)
(***************************************************************************)
EXTENDS Integers, Sequences, FiniteSets, TLC

None == <<>>

\* Denominator of the fixed-point branching ratios and yield fractions.
Den == 2
\* math.log(2) in the fixed-point time unit (half-lives divide it exactly).
Log2 == 6

\* Exception kinds raised by the Python code; "" is normal completion.
NoErr == ""

-----------------------------------------------------------------------------
(* Small generic helpers for Python dict / list operations.                *)

\* d[key] = val on a dict (a function whose DOMAIN is the key set).
DictSet(d, key, val) ==
    [x \in (DOMAIN d) \cup {key} |-> IF x = key THEN val ELSE d[x]]

\* "x in l" for a list.
InList(l, x) == \E p \in 1..Len(l) : l[p] = x

-----------------------------------------------------------------------------
(* DepletionChain.__init__ and nuclide.Nuclide()                           *)

\* The DepletionChain object right after __init__: every field None.
NewChain ==
    [n_nuclides    |-> None,
     n_fp_nuclides |-> None,
     nuclides      |-> None,
     nuclide_dict  |-> None,
     precursor_dict|-> None,
     yields        |-> None,
     reaction_list |-> None]

\* nuc = nuclide.Nuclide(); nuc.yield_ind = 0; nuc.fission_power = 0.0
\* followed by name / n_decay_paths / n_reaction_paths (lines 62-70).
NewNuclide(name, n_decay_paths, n_reaction_paths) ==
    [name             |-> name,
     n_decay_paths    |-> n_decay_paths,
     n_reaction_paths |-> n_reaction_paths,
     yield_ind        |-> 0,
     fission_power    |-> 0,
     half_life        |-> None,
     decay_target     |-> None,
     decay_type       |-> None,
     branching_ratio  |-> None,
     reaction_target  |-> None,
     reaction_type    |-> None]

\* self.yields = nuclide.Yield() (line 116): no field loaded yet.
NewYield ==
    [n_fis_prod     |-> None,
     n_precursors   |-> None,
     n_energies     |-> None,
     precursor_list |-> None,
     energy_list    |-> None,
     energy_dict    |-> None,
     name           |-> None,
     fis_yield_data |-> None,
     fis_prod_dict  |-> None]

\* The value stored in reaction_target for a fission path (Python: 0).
FissionTarget == "0"

-----------------------------------------------------------------------------
(* DepletionChain.xml_read                                                 *)

\* for decay_node in nuclide_node.iter('decay_type'): ... (lines 83-86)
\* float(None) on a missing branching_ratio raises TypeError after the
\* target and type were appended.
RECURSIVE ReadDecayTypes(_, _, _)
ReadDecayTypes(nuc, nodes, c) ==
    IF c > Len(nodes) THEN [nuc |-> nuc, err |-> NoErr]
    ELSE LET node == nodes[c]
             n1   == [nuc EXCEPT !.decay_target = Append(@, node.target),
                                 !.decay_type   = Append(@, node.type)]
         IN  IF node.branching_ratio = None
             THEN [nuc |-> n1, err |-> "TypeError"]
             ELSE ReadDecayTypes(
                    [n1 EXCEPT !.branching_ratio =
                                   Append(@, node.branching_ratio[1])],
                    nodes, c + 1)

\* for reaction_node in nuclide_node.iter('reaction_type'): ... (94-108)
\* Threads self.reaction_list, which is appended to in place.
RECURSIVE ReadReactionTypes(_, _, _, _)
ReadReactionTypes(nuc, reaction_list, nodes, c) ==
    IF c > Len(nodes)
    THEN [nuc |-> nuc, reaction_list |-> reaction_list, err |-> NoErr]
    ELSE LET node   == nodes[c]
             r_type == node.type
             rl     == IF InList(reaction_list, r_type) THEN reaction_list
                       ELSE Append(reaction_list, r_type)
             n1     == [nuc EXCEPT !.reaction_type = Append(@, r_type)]
         IN  IF r_type # "fission"
             THEN ReadReactionTypes(
                    [n1 EXCEPT !.reaction_target = Append(@, node.target)],
                    rl, nodes, c + 1)
             ELSE LET n2 == [n1 EXCEPT !.reaction_target =
                                           Append(@, FissionTarget)]
                  IN  IF node.energy = None
                      THEN [nuc |-> n2, reaction_list |-> rl,
                            err |-> "TypeError"]
                      ELSE ReadReactionTypes(
                             [n2 EXCEPT !.fission_power = node.energy[1]],
                             rl, nodes, c + 1)

\* One iteration of "for nuclide_node in decay_node.findall('nuclide_table')"
\* (lines 60-111) on the chain object self.
ReadNuclideTable(self, node, nuclide_index) ==
    LET s1 == [self EXCEPT !.n_nuclides = <<@[1] + 1>>]
    IN
    IF node.decay_modes = None \/ node.reactions = None
    THEN [self |-> s1, err |-> "TypeError"]
    ELSE
    LET nuc0 == NewNuclide(node.name, node.decay_modes[1], node.reactions[1])
        s2   == [s1 EXCEPT !.nuclide_dict =
                               DictSet(@, nuc0.name, nuclide_index)]
    IN
    IF nuc0.n_decay_paths > 0 /\ node.half_life = None
    THEN [self |-> s2, err |-> "TypeError"]
    ELSE
    LET d == IF nuc0.n_decay_paths > 0
             THEN ReadDecayTypes(
                    [nuc0 EXCEPT !.half_life = <<node.half_life[1]>>],
                    node.decay_type, 1)
             ELSE [nuc |-> nuc0, err |-> NoErr]
    IN
    IF d.err # NoErr THEN [self |-> s2, err |-> d.err]
    ELSE
    LET r == IF d.nuc.n_reaction_paths > 0
             THEN ReadReactionTypes(d.nuc, s2.reaction_list,
                                    node.reaction_type, 1)
             ELSE [nuc |-> d.nuc, reaction_list |-> s2.reaction_list,
                   err |-> NoErr]
        s3 == [s2 EXCEPT !.reaction_list = r.reaction_list]
    IN
    IF r.err # NoErr THEN [self |-> s3, err |-> r.err]
    ELSE [self |-> [s3 EXCEPT !.nuclides = Append(@, r.nuc)],
          err  |-> NoErr]

\* The loop over the nuclide tables (lines 57-111).
RECURSIVE ReadNuclideTables(_, _, _)
ReadNuclideTables(self, nodes, nuclide_index) ==
    IF nuclide_index >= Len(nodes) THEN [self |-> self, err |-> NoErr]
    ELSE LET st == ReadNuclideTable(self, nodes[nuclide_index + 1],
                                    nuclide_index)
         IN  IF st.err # NoErr THEN st
             ELSE ReadNuclideTables(st.self, nodes, nuclide_index + 1)

\* Inverse of a list as a dict: later duplicates win (lines 135-145).
RECURSIVE ListToDict(_, _, _)
ListToDict(l, d, index) ==
    IF index >= Len(l) THEN d
    ELSE ListToDict(l, DictSet(d, l[index + 1], index), index + 1)

\* np.zeros([n_fis_prod, n_energies, n_precursors]) (line 150).
Zeros3(n_fis_prod, n_energies, n_precursors) ==
    [k \in 0..(n_fis_prod - 1) |->
        [e \in 0..(n_energies - 1) |->
            [m \in 0..(n_precursors - 1) |-> 0]]]

\* for fy_table in yield_table_node.findall('fission_yields') (166-173),
\* on the Yield object y for product product_index.
RECURSIVE ReadFissionYields(_, _, _, _, _)
ReadFissionYields(y, name, product_index, tables, c) ==
    IF c > Len(tables) THEN [yields |-> y, err |-> NoErr]
    ELSE
    LET fy_table == tables[c]
        energy   == fy_table.energy
    IN
    IF energy \notin DOMAIN y.energy_dict
    THEN [yields |-> y, err |-> "KeyError"]
    ELSE
    LET energy_index == y.energy_dict[energy]
        y1 == [y EXCEPT !.fis_prod_dict = DictSet(@, name, product_index)]
        temp == fy_table.fy_data
    IN
    IF \/ product_index \notin DOMAIN y1.fis_yield_data
       \/ energy_index \notin DOMAIN y1.fis_yield_data[product_index]
    THEN [yields |-> y1, err |-> "IndexError"]
    ELSE IF Len(temp) # y1.n_precursors /\ Len(temp) # 1
    THEN [yields |-> y1, err |-> "ValueError"]
    ELSE ReadFissionYields(
           [y1 EXCEPT !.fis_yield_data[product_index][energy_index] =
               [m \in 0..(y1.n_precursors - 1) |->
                   IF Len(temp) = 1 THEN temp[1] ELSE temp[m + 1]]],
           name, product_index, tables, c + 1)

\* for yield_table_node in nfy_node.findall('nuclide_table') (157-175).
RECURSIVE ReadYieldTables(_, _, _)
ReadYieldTables(self, nodes, product_index) ==
    IF product_index >= Len(nodes) THEN [self |-> self, err |-> NoErr]
    ELSE
    LET node == nodes[product_index + 1]
        name == node.name
        y0   == [self.yields[1] EXCEPT !.name = Append(@, name)]
        s0   == [self EXCEPT !.yields = <<y0>>]
    IN
    IF name \notin DOMAIN self.nuclide_dict
    THEN [self |-> s0, err |-> "KeyError"]
    ELSE
    LET nuc_ind == self.nuclide_dict[name]
        s1 == [s0 EXCEPT !.nuclides[nuc_ind + 1].yield_ind = product_index]
        f  == ReadFissionYields(y0, name, product_index,
                                node.fission_yields, 1)
        s2 == [s1 EXCEPT !.yields = <<f.yields>>]
    IN
    IF f.err # NoErr THEN [self |-> s2, err |-> f.err]
    ELSE ReadYieldTables(s2, nodes, product_index + 1)

\* The neutron_fission_yields block (lines 114-175).
ReadYields(self, nfy_node) ==
    IF nfy_node = None
    THEN [self |-> [self EXCEPT !.yields = <<NewYield>>],
          err |-> "AttributeError"]
    ELSE
    LET nfy == nfy_node[1]
        energy_list == nfy.energy
        precursor_list == nfy.precursor_name
        y == [n_fis_prod     |-> nfy.nuclides,
              n_precursors   |-> nfy.precursor,
              n_energies     |-> nfy.energy_points,
              precursor_list |-> precursor_list,
              energy_list    |-> energy_list,
              energy_dict    |-> ListToDict(energy_list, <<>>, 0),
              name           |-> <<>>,
              fis_yield_data |-> Zeros3(nfy.nuclides, nfy.energy_points,
                                        nfy.precursor),
              fis_prod_dict  |-> <<>>]
        s == [self EXCEPT !.yields = <<y>>,
                          !.precursor_dict =
                              ListToDict(precursor_list, <<>>, 0)]
    IN ReadYieldTables(s, nfy.nuclide_table, 0)

\* xml_read(self, filename) on the parsed document doc: the chain object
\* as the call leaves it, and the exception it raised (NoErr: it returned).
xml_read(self, doc) ==
    LET s0 == [self EXCEPT !.n_nuclides    = <<0>>,
                           !.n_fp_nuclides = <<0>>,
                           !.nuclides      = <<>>,
                           !.reaction_list = <<>>,
                           !.nuclide_dict  = <<>>]
        t  == ReadNuclideTables(s0, doc.decay_constants, 0)
    IN  IF t.err # NoErr THEN t
        ELSE ReadYields(t.self, doc.neutron_fission_yields)

-----------------------------------------------------------------------------
(* DepletionChain.form_matrix                                              *)

\* sp.dok_matrix((n, n)): every entry reads as zero (line 186).
dok_matrix(n) == [k \in 0..(n - 1) |-> [i \in 0..(n - 1) |-> 0]]

\* A faulty variant of MatAdd: the entry is overwritten (=) instead of accumulated.
MatAdd_Overwrite(matrix, k, i, v) == [matrix EXCEPT ![k][i] = v]

\* matrix[k, i] += v (v = -w for "-=").
MatAdd(matrix, k, i, v) == [matrix EXCEPT ![k][i] = @ + v]

\* decay_constant = math.log(2)/nuclide.half_life (line 194).
DecayConstant(half_life) == Log2 \div half_life

\* for j in range(nuclide.n_decay_paths): ... (lines 199-206)
RECURSIVE DecayGain(_, _, _, _, _, _)
DecayGain(self, matrix, i, nuclide, decay_constant, j) ==
    IF j >= nuclide.n_decay_paths THEN [matrix |-> matrix, err |-> NoErr]
    ELSE IF j >= Len(nuclide.decay_target)
    THEN [matrix |-> matrix, err |-> "IndexError"]
    ELSE
    LET target_nuclide == nuclide.decay_target[j + 1]
    IN
    IF target_nuclide # "Nothing"
    THEN IF target_nuclide \notin DOMAIN self.nuclide_dict
         THEN [matrix |-> matrix, err |-> "KeyError"]
         ELSE LET k == self.nuclide_dict[target_nuclide]
              IN  DecayGain(self,
                            MatAdd(matrix, k, i,
                                   nuclide.branching_ratio[j + 1]
                                       * decay_constant),
                            i, nuclide, decay_constant, j + 1)
    ELSE DecayGain(self, matrix, i, nuclide, decay_constant, j + 1)

\* A faulty variant of DecayPaths: the loss "matrix[i, i] -= decay_constant" is
\* missing.
DecayPaths_NoLoss(self, matrix, i, nuclide) ==
    IF nuclide.n_decay_paths = 0 THEN [matrix |-> matrix, err |-> NoErr]
    ELSE IF nuclide.half_life = None
    THEN [matrix |-> matrix, err |-> "TypeError"]
    ELSE IF nuclide.half_life[1] = 0
    THEN [matrix |-> matrix, err |-> "ZeroDivisionError"]
    ELSE DecayGain(self, matrix, i, nuclide,
                   DecayConstant(nuclide.half_life[1]), 0)

\* if nuclide.n_decay_paths != 0: ... (lines 191-206)
DecayPaths(self, matrix, i, nuclide) ==
    IF nuclide.n_decay_paths = 0 THEN [matrix |-> matrix, err |-> NoErr]
    ELSE IF nuclide.half_life = None
    THEN [matrix |-> matrix, err |-> "TypeError"]
    ELSE IF nuclide.half_life[1] = 0
    THEN [matrix |-> matrix, err |-> "ZeroDivisionError"]
    ELSE LET decay_constant == DecayConstant(nuclide.half_life[1])
         IN  DecayGain(self,
                       MatAdd(matrix, i, i, 0 - Den * decay_constant),
                       i, nuclide, decay_constant, 0)

\* for k in range(self.yields.n_fis_prod): ... (lines 229-232)
RECURSIVE FissionGain(_, _, _, _, _, _)
FissionGain(self, matrix, i, m, rate, k) ==
    LET y == self.yields[1]
    IN
    IF k >= y.n_fis_prod THEN [matrix |-> matrix, err |-> NoErr]
    ELSE IF k >= Len(y.name)
    THEN [matrix |-> matrix, err |-> "IndexError"]
    ELSE IF y.name[k + 1] \notin DOMAIN self.nuclide_dict
    THEN [matrix |-> matrix, err |-> "KeyError"]
    ELSE
    LET l == self.nuclide_dict[y.name[k + 1]]
    IN
    IF \/ 0 \notin DOMAIN y.fis_yield_data[k]
       \/ m \notin DOMAIN y.fis_yield_data[k][0]
    THEN [matrix |-> matrix, err |-> "IndexError"]
    ELSE FissionGain(self,
                     MatAdd(matrix, l, i, y.fis_yield_data[k][0][m] * rate),
                     i, m, rate, k + 1)

\* A faulty variant of ReactionPath: the sentinel test comes before the loss, so a
\* path to "Nothing" is skipped altogether.
ReactionPath_SkipSentinel(self, matrix0, i, nuclide, j, rate) ==
    LET matrix == MatAdd(matrix0, i, i, 0 - Den * rate)
        target_nuclide == nuclide.reaction_target[j + 1]
    IN
    IF target_nuclide = "Nothing" THEN [matrix |-> matrix0, err |-> NoErr]
    ELSE IF nuclide.reaction_type[j + 1] # "fission"
    THEN IF target_nuclide \notin DOMAIN self.nuclide_dict
         THEN [matrix |-> matrix, err |-> "KeyError"]
         ELSE [matrix |-> MatAdd(matrix, self.nuclide_dict[target_nuclide],
                                 i, Den * rate),
               err |-> NoErr]
    ELSE IF nuclide.name \notin DOMAIN self.precursor_dict
    THEN [matrix |-> matrix, err |-> "KeyError"]
    ELSE FissionGain(self, matrix, i, self.precursor_dict[nuclide.name],
                     rate, 0)

\* One reaction path of rate n_rates[j]: the loss, then the gain
\* (lines 212-232).
ReactionPath(self, matrix0, i, nuclide, j, rate) ==
    LET matrix == MatAdd(matrix0, i, i, 0 - Den * rate)
        target_nuclide == nuclide.reaction_target[j + 1]
    IN
    IF target_nuclide = "Nothing" THEN [matrix |-> matrix, err |-> NoErr]
    ELSE IF nuclide.reaction_type[j + 1] # "fission"
    THEN IF target_nuclide \notin DOMAIN self.nuclide_dict
         THEN [matrix |-> matrix, err |-> "KeyError"]
         ELSE [matrix |-> MatAdd(matrix, self.nuclide_dict[target_nuclide],
                                 i, Den * rate),
               err |-> NoErr]
    ELSE IF nuclide.name \notin DOMAIN self.precursor_dict
    THEN [matrix |-> matrix, err |-> "KeyError"]
    ELSE FissionGain(self, matrix, i, self.precursor_dict[nuclide.name],
                     rate, 0)

\* for j in range(nuclide.n_reaction_paths): ... (lines 208-232)
RECURSIVE ReactionPaths(_, _, _, _, _, _)
ReactionPaths(self, rates, matrix, i, nuclide, j) ==
    IF j >= nuclide.n_reaction_paths
    THEN [matrix |-> matrix, err |-> NoErr]
    ELSE IF nuclide.name \notin DOMAIN rates.rate
    THEN [matrix |-> matrix, err |-> "KeyError"]
    ELSE
    LET n_rates == rates.rate[nuclide.name]
    IN
    IF j >= Len(n_rates) \/ j >= Len(nuclide.reaction_target)
    THEN [matrix |-> matrix, err |-> "IndexError"]
    ELSE
    LET g == ReactionPath(self, matrix, i, nuclide, j, n_rates[j + 1])
    IN  IF g.err # NoErr THEN g
        ELSE ReactionPaths(self, rates, g.matrix, i, nuclide, j + 1)

\* A faulty variant of FormNuclide: the decay constant is computed in place, in the
\* nuclide's half_life field of the shared chain.
FormNuclide_InPlace(h, i) ==
    LET nuclide == h.self.nuclides[i + 1]
        d == DecayPaths(h.self, h.matrix, i, nuclide)
        s == IF nuclide.n_decay_paths # 0 /\ d.err = NoErr
             THEN [h.self EXCEPT !.nuclides[i + 1].half_life =
                                     <<DecayConstant(@[1])>>]
             ELSE h.self
    IN  IF d.err # NoErr THEN [h EXCEPT !.err = d.err]
        ELSE LET r == ReactionPaths(h.self, h.rates, d.matrix, i, nuclide, 0)
             IN  [h EXCEPT !.matrix = r.matrix, !.err = r.err, !.self = s]

\* One iteration of "for i in range(self.n_nuclides)" (lines 189-232) on
\* the heap h = [self, rates, matrix, err]: only the local matrix is
\* written.
FormNuclide(h, i) ==
    LET nuclide == h.self.nuclides[i + 1]
        d == DecayPaths(h.self, h.matrix, i, nuclide)
    IN  IF d.err # NoErr THEN [h EXCEPT !.err = d.err]
        ELSE LET r == ReactionPaths(h.self, h.rates, d.matrix, i, nuclide, 0)
             IN  [h EXCEPT !.matrix = r.matrix, !.err = r.err]

\* The heap at the entry of the loop: matrix = sp.dok_matrix(...) (186).
FormStart(self, rates) ==
    IF self.n_nuclides = None
    THEN [self |-> self, rates |-> rates, matrix |-> None,
          err |-> "TypeError"]
    ELSE [self |-> self, rates |-> rates,
          matrix |-> dok_matrix(self.n_nuclides[1]), err |-> NoErr]

RECURSIVE FormLoop(_, _)
FormLoop(h, i) ==
    IF h.err # NoErr \/ i >= h.self.n_nuclides[1] THEN h
    ELSE FormLoop(FormNuclide(h, i), i + 1)

\* A faulty variant of FormReturn: the call records the size of what it built in the
\* chain's n_fp_nuclides field.
FormReturn_Recording(h) ==
    IF h.err # NoErr
    THEN [h EXCEPT !.matrix = None,
                   !.self.n_fp_nuclides = [i \in 1..Len(@) |-> @[i] + 1]]
    ELSE [h EXCEPT !.self.n_fp_nuclides = <<Len(h.self.nuclides)>>]

\* matrix.tocsr(); return matrix (233-234): an exception returns nothing.
FormReturn(h) == IF h.err # NoErr THEN [h EXCEPT !.matrix = None] ELSE h

\* form_matrix(self, rates): the heap the call leaves (self, rates), the
\* returned matrix and the exception raised.
form_matrix(self, rates) == FormReturn(FormLoop(FormStart(self, rates), 0))

\* nuc_by_ind(self, ind) (line 245).
nuc_by_ind(self, ind) ==
    IF ind \notin DOMAIN self.nuclide_dict
    THEN [self |-> self, ret |-> None, err |-> "KeyError"]
    ELSE [self |-> self, ret |-> <<self.nuclides[self.nuclide_dict[ind] + 1]>>,
          err |-> NoErr]

\* matrix_wrapper(input_tuple) (line 261).
matrix_wrapper(input_tuple) == form_matrix(input_tuple[1], input_tuple[2])

-----------------------------------------------------------------------------
(* Chain descriptions: the parsed XML documents handed to xml_read.        *)
(* A document is [decay_constants |-> <<nuclide_table, ...>>,              *)
(* neutron_fission_yields |-> None or <<block>>]; an attribute that is     *)
(* absent is None and a numeric attribute that is present is <<v>>.        *)

\* The most nuclide_table entries of a description.
MaxNuclides == 2
\* The most decay_type plus reaction_type children of one nuclide_table.
MaxPaths == 2

NucNames == <<"A", "B", "C", "D">>
\* A name no description declares.
Unknown == "Zz"
\* Half-life of the nuclide at each position (divisors of Log2).
HalfLives == <<3, 2, 1, 6>>
BranchVals == {1, 2}
YieldVals == {1, 2}
RateVals == {0, 1, 2}
\* The two tabulated energies; index 0 is the reference energy.
Energies == <<1, 2>>

SeqsUpTo(S, n) == UNION {[1..k -> S] : k \in 0..n}

DecayNode(t, b) == [target |-> t, type |-> "beta-", branching_ratio |-> b]
CaptureNode(t) == [type |-> "(n,gamma)", target |-> t, energy |-> None]
FissionNode == [type |-> "fission", target |-> "", energy |-> <<200>>]

NuclideTable(name, dm, r, hl, ds, rs) ==
    [name |-> name, decay_modes |-> dm, reactions |-> r, half_life |-> hl,
     decay_type |-> ds, reaction_type |-> rs]

\* The entry after position p of n, cyclically (p itself when n = 1).
NextName(p, n) == NucNames[(p % n) + 1]

\* Entries whose declared counts match their children: decay paths lead to
\* the next entry or to the untracked sentinel, captures also to the entry
\* itself.
RichTables(p, n) ==
    LET DN == {DecayNode(t, <<b>>) :
                  t \in {NextName(p, n), "Nothing"}, b \in BranchVals}
        RN == {CaptureNode(t) :
                  t \in {NucNames[p], NextName(p, n), "Nothing"}}
              \cup {FissionNode}
    IN  {NuclideTable(NucNames[p], <<Len(ds)>>, <<Len(rs)>>,
                      IF ds = <<>> THEN None ELSE <<HalfLives[p]>>, ds, rs) :
            <<ds, rs>> \in {x \in SeqsUpTo(DN, MaxPaths)
                                   \X SeqsUpTo(RN, MaxPaths) :
                               Len(x[1]) + Len(x[2]) <= MaxPaths}}

\* kind 0: stable, no reaction; kind 1: one capture to the sentinel.
SimpleTable(p, kind) ==
    IF kind = 0
    THEN NuclideTable(NucNames[p], <<0>>, <<0>>, None, <<>>, <<>>)
    ELSE NuclideTable(NucNames[p], <<0>>, <<1>>, None, <<>>,
                      <<CaptureNode("Nothing")>>)

\* Decay blocks of n entries: one rich entry at position p; the others are
\* stable, and the entry after p may capture (kind 1).
DecayBlocks ==
    UNION {UNION {
        {[q \in 1..n |->
            IF q = p THEN rich
            ELSE SimpleTable(q, IF q = (p % n) + 1 THEN kind ELSE 0)] :
            rich \in RichTables(p, n), kind \in {0, 1}} :
        p \in 1..n} : n \in 1..MaxNuclides}

HasFission(table) ==
    \E c \in 1..Len(table.reaction_type) :
        table.reaction_type[c].type = "fission"

\* The yield block of a decay block: every nuclide is a fission product and
\* (in reverse order) a precursor; at the reference energy each product
\* yields v to the odd precursors and Den + 1 - v to the even ones, and the
\* other way round at the second energy.
YieldBlock(tables, v) ==
    LET n == Len(tables)
        w == Den + 1 - v
    IN  [nuclides       |-> n,
         precursor      |-> n,
         energy_points  |-> Len(Energies),
         precursor_name |-> [m \in 1..n |-> tables[n + 1 - m].name],
         energy         |-> Energies,
         nuclide_table  |->
            [q \in 1..n |->
                [name |-> tables[q].name,
                 fission_yields |->
                    <<[energy |-> Energies[1],
                       fy_data |-> [m \in 1..n |->
                                       IF m % 2 = 1 THEN v ELSE w]],
                      [energy |-> Energies[2],
                       fy_data |-> [m \in 1..n |->
                                       IF m % 2 = 1 THEN w ELSE v]]>>]]]

Document(tables, v) ==
    [decay_constants |-> tables,
     neutron_fission_yields |-> <<YieldBlock(tables, v)>>]

\* Well-formed descriptions.
GoodDocs ==
    {Document(tables, v) :
        <<tables, v>> \in {x \in DecayBlocks \X YieldVals :
                              x[2] = 1 \/ \E q \in 1..Len(x[1]) :
                                              HasFission(x[1][q])}}

\* Descriptions whose faults are applied to their first entry: every later
\* entry is stable and without reactions.
FaultBases ==
    {d \in GoodDocs :
        /\ \A q \in 2..Len(d.decay_constants) :
              d.decay_constants[q] = SimpleTable(q, 0)
        /\ d = Document(d.decay_constants, 1)}

\* The description d with its first nuclide_table replaced by e (the yield
\* block is kept).
WithFirst(d, e) == [d EXCEPT !.decay_constants[1] = e]

\* Malformed variants of d: one fault each.
Faults(d) ==
    LET e  == d.decay_constants[1]
        nd == Len(e.decay_type)
        nr == Len(e.reaction_type)
    IN  \* declared decay_modes / reactions differ from the children present
        {WithFirst(d, [e EXCEPT !.decay_modes = <<nd + x>>]) :
            x \in {x \in {0 - 1, 1} : nd >= 1 /\ nd + x >= 1}}
        \cup
        {WithFirst(d, [e EXCEPT !.reactions = <<nr + x>>]) :
            x \in {x \in {0 - 1, 1} : nr >= 1 /\ nr + x >= 1}}
        \cup \* half_life absent, or zero
        {WithFirst(d, [e EXCEPT !.half_life = h]) :
            h \in {h \in {None, <<0>>} : nd >= 1}}
        \cup \* branching_ratio of the last decay path absent
        {WithFirst(d, [e EXCEPT !.decay_type[nd].branching_ratio = None]) :
            x \in {x \in {0} : nd >= 1}}
        \cup \* energy of a fission path absent
        {WithFirst(d, [e EXCEPT !.reaction_type[c].energy = None]) :
            c \in {c \in 1..nr : e.reaction_type[c].type = "fission"}}
        \cup \* a target that names no nuclide of the description
        {WithFirst(d, [e EXCEPT !.decay_type[c].target = Unknown]) :
            c \in 1..nd}
        \cup
        {WithFirst(d, [e EXCEPT !.reaction_type[c].target = Unknown]) :
            c \in {c \in 1..nr : e.reaction_type[c].type # "fission"}}
        \cup \* the second entry repeats the name of the first
        {Document([d.decay_constants EXCEPT ![2].name = e.name], 1) :
            x \in {x \in {0} : Len(d.decay_constants) >= 2}}
        \cup \* a yield table for a nuclide the description does not declare
        {[d EXCEPT !.neutron_fission_yields[1].nuclide_table =
                       Append(@, [@[1] EXCEPT !.name = Unknown])],
         \* no neutron_fission_yields block at all
         [d EXCEPT !.neutron_fission_yields = None]}

BadDocs == UNION {Faults(d) : d \in FaultBases}

Docs == GoodDocs \cup BadDocs

\* Descriptions after whose load a second, different description may be
\* loaded into the same object: MaxNuclides entries, the first fissioning.
SeedDocs ==
    {d \in GoodDocs :
        /\ Len(d.decay_constants) = MaxNuclides
        /\ d.decay_constants[1].decay_type = <<>>
        /\ d.decay_constants[1].reaction_type = <<FissionNode>>
        /\ \A q \in 2..MaxNuclides :
              d.decay_constants[q] = SimpleTable(q, IF q = 2 THEN 1 ELSE 0)}

-----------------------------------------------------------------------------
(* Reaction-rate sets handed to form_matrix: rates.rate maps a nuclide     *)
(* name to its sequence of rates.                                          *)

\* The reaction-path count of the nuclide a name resolves to.
PathCount(self, name) ==
    self.nuclides[self.nuclide_dict[name] + 1].n_reaction_paths

\* The rate set of pattern o: the rate of path j (from 1) of the nuclide
\* a name resolves to at index x is (o + x + j) modulo the number of rate
\* values, so that over the patterns every path takes every value and
\* neighbouring paths differ.
RatePattern(self, o) ==
    [n \in DOMAIN self.nuclide_dict |->
        [j \in 1..PathCount(self, n) |->
            (o + self.nuclide_dict[n] + j) % Cardinality(RateVals)]]

\* Matching rate sets (one per pattern), and those with one sequence of
\* the first pattern one too short or one too long.
RateSets(self) ==
    LET names == {n \in DOMAIN self.nuclide_dict : PathCount(self, n) >= 1}
        first == RatePattern(self, 0)
    IN  {[rate |-> RatePattern(self, o)] : o \in RateVals}
        \cup {[rate |-> [first EXCEPT ![n] = SubSeq(@, 1, Len(@) - 1)]] :
                n \in names}
        \cup {[rate |-> [first EXCEPT ![n] = Append(@, 1)]] : n \in names}

-----------------------------------------------------------------------------
(* The sequential driver: construct, load, look up, assemble.              *)

VARIABLES
    chain,    \* the DepletionChain object
    doc,      \* the description of the last xml_read (None: none yet)
    op,       \* the last call made
    err,      \* the exception the last call raised (NoErr: it returned)
    rates,    \* the rate set of the last form_matrix call
    matrix,   \* the matrix the last form_matrix call returned
    found,    \* the nuclide the last nuc_by_ind call returned
    edit,     \* the path retargeted to "Nothing" (None: none)
    matrix2,  \* the matrix assembled from the retargeted chain
    pool      \* the worker pool of the parallel driver (None: no pool)

vars == <<chain, doc, op, err, rates, matrix, found, edit, matrix2, pool>>

Init ==
    /\ chain = NewChain
    /\ doc = None
    /\ op = "init"
    /\ err = NoErr
    /\ rates = None
    /\ matrix = None
    /\ found = None
    /\ edit = None
    /\ matrix2 = None
    /\ pool = None

\* The descriptions the driver may load now: any for the first load; after
\* a load that returned, the same description again, or any description
\* over a seed description.
Loadable ==
    IF op = "init" THEN Docs
    ELSE IF op = "xml_read" /\ err = NoErr
    THEN (IF doc[1] \in SeedDocs THEN Docs ELSE {doc[1]})
    ELSE {}

\* chain.xml_read(d).
XmlRead ==
    \E d \in Loadable :
        /\ LET r == xml_read(chain, d)
           IN  /\ chain' = r.self
               /\ err' = r.err
        /\ doc' = <<d>>
        /\ op' = "xml_read"
        /\ UNCHANGED <<rates, matrix, found, edit, matrix2, pool>>

\* chain.nuc_by_ind(ind) on a loaded chain.
NucByInd ==
    /\ op = "xml_read" /\ err = NoErr
    /\ \E ind \in (DOMAIN chain.nuclide_dict) \cup {Unknown} :
        /\ LET r == nuc_by_ind(chain, ind)
           IN  /\ chain' = r.self
               /\ found' = r.ret
               /\ err' = r.err
        /\ op' = "nuc_by_ind"
        /\ UNCHANGED <<doc, rates, matrix, edit, matrix2, pool>>

\* The transport collaborator hands the driver a rate set for the loaded
\* chain (the argument of the next form_matrix call).
SupplyRates ==
    /\ op = "xml_read" /\ err = NoErr
    /\ \E rs \in RateSets(chain) : rates' = <<rs>>
    /\ op' = "rates"
    /\ UNCHANGED <<chain, doc, err, matrix, found, edit, matrix2, pool>>

\* matrix_wrapper((chain, rates)), that is chain.form_matrix(rates).
MatrixWrapper ==
    /\ op = "rates"
    /\ LET h == matrix_wrapper(<<chain, rates[1]>>)
       IN  /\ chain' = h.self
           /\ rates' = <<h.rates>>
           /\ matrix' = h.matrix
           /\ err' = h.err
    /\ op' = "form_matrix"
    /\ UNCHANGED <<doc, found, edit, matrix2, pool>>

\* The paths <<i, kind, j>> of the chain that form_matrix follows to a
\* tracked nuclide: decay paths and non-fission reaction paths whose target
\* is a nuclide of the chain.
TrackedPaths(self) ==
    {<<i, "decay", j>> :
        <<i, j>> \in {x \in (0..(Len(self.nuclides) - 1)) \X (0..MaxPaths) :
            LET nuc == self.nuclides[x[1] + 1]
            IN  /\ x[2] < nuc.n_decay_paths
                /\ x[2] < Len(nuc.decay_target)
                /\ nuc.decay_target[x[2] + 1] \in DOMAIN self.nuclide_dict}}
    \cup
    {<<i, "reaction", j>> :
        <<i, j>> \in {x \in (0..(Len(self.nuclides) - 1)) \X (0..MaxPaths) :
            LET nuc == self.nuclides[x[1] + 1]
            IN  /\ x[2] < nuc.n_reaction_paths
                /\ x[2] < Len(nuc.reaction_target)
                /\ nuc.reaction_type[x[2] + 1] # "fission"
                /\ nuc.reaction_target[x[2] + 1]
                       \in DOMAIN self.nuclide_dict}}

\* A copy of the chain with the target of path e replaced by "Nothing".
Retarget(self, e) ==
    IF e[2] = "decay"
    THEN [self EXCEPT !.nuclides[e[1] + 1].decay_target[e[3] + 1] = "Nothing"]
    ELSE [self EXCEPT
             !.nuclides[e[1] + 1].reaction_target[e[3] + 1] = "Nothing"]

\* form_matrix(rates) on a copy of the chain in which one tracked path leads
\* to the sentinel instead, after the chain's own matrix was assembled.
SentinelEdit ==
    /\ op = "form_matrix" /\ err = NoErr
    /\ \E e \in TrackedPaths(chain) :
        LET h == form_matrix(Retarget(chain, e), rates[1])
        IN  /\ edit' = <<e>>
            /\ matrix2' = h.matrix
            /\ err' = h.err
            /\ rates' = <<h.rates>>
    /\ op' = "sentinel"
    /\ UNCHANGED <<chain, doc, matrix, found, pool>>

Next == XmlRead \/ NucByInd \/ SupplyRates \/ MatrixWrapper \/ SentinelEdit

Spec == Init /\ [][Next]_vars

-----------------------------------------------------------------------------
(* The parallel driver: map(matrix_wrapper, [(chain, rates_r), ...]) on a  *)
(* pool of workers that share the chain object.  A worker runs one call of *)
(* matrix_wrapper, one iteration of form_matrix's loop over the nuclides   *)
(* at a time; the pool stores what a call returns in the slot of its input *)
(* tuple.                                                                  *)

\* The number of regions (input tuples, workers).
NRegions == 2

Regions == 1..NRegions

\* The chains the parallel driver assembles: MaxNuclides entries, the
\* first with one decay path and one reaction path, the second capturing.
ParDocs ==
    {d \in GoodDocs :
        /\ Len(d.decay_constants) = MaxNuclides
        /\ Len(d.decay_constants[1].decay_type) = 1
        /\ Len(d.decay_constants[1].reaction_type) = 1
        /\ \A q \in 2..MaxNuclides :
              d.decay_constants[q] = SimpleTable(q, IF q = 2 THEN 1 ELSE 0)}

InitPar ==
    /\ \E d \in ParDocs :
          /\ chain = xml_read(NewChain, d).self
          /\ doc = <<d>>
    /\ op = "pool"
    /\ err = NoErr
    /\ rates = None
    /\ matrix = None
    /\ found = None
    /\ edit = None
    /\ matrix2 = None
    /\ pool \in
          {[tuples  |-> t,
            wpc     |-> [r \in Regions |-> "idle"],
            wheap   |-> [r \in Regions |-> None],
            results |-> [r \in Regions |-> None],
            order   |-> <<>>] :
              t \in [Regions ->
                        {<<chain, [rate |-> RatePattern(chain, o)]>> :
                            o \in RateVals}]}

\* Worker r enters matrix_wrapper(input_tuple) and form_matrix up to its
\* loop: the local matrix is allocated.
WorkerStart(r) ==
    /\ pool.wpc[r] = "idle"
    /\ LET input_tuple == pool.tuples[r]
           h == FormStart(chain, input_tuple[2])
       IN  /\ chain' = h.self
           /\ pool' = [pool EXCEPT
                          !.wpc[r] = "run",
                          !.wheap[r] = [rates |-> h.rates,
                                        matrix |-> h.matrix,
                                        err |-> h.err, i |-> 0]]
    /\ UNCHANGED <<doc, op, err, rates, matrix, found, edit, matrix2>>

\* Worker r runs one iteration of the loop over the nuclides, on the shared
\* chain and its own rates and matrix.
WorkerStep(r) ==
    /\ pool.wpc[r] = "run"
    /\ pool.wheap[r].err = NoErr
    /\ pool.wheap[r].i < chain.n_nuclides[1]
    /\ LET w == pool.wheap[r]
           h == FormNuclide([self |-> chain, rates |-> w.rates,
                             matrix |-> w.matrix, err |-> w.err], w.i)
       IN  /\ chain' = h.self
           /\ pool' = [pool EXCEPT
                          !.wheap[r] = [rates |-> h.rates,
                                        matrix |-> h.matrix,
                                        err |-> h.err, i |-> w.i + 1]]
    /\ UNCHANGED <<doc, op, err, rates, matrix, found, edit, matrix2>>

\* Worker r leaves the loop and returns; the pool puts the result in slot r
\* (the slot of the input tuple), whatever returned before.
WorkerReturn(r) ==
    /\ pool.wpc[r] = "run"
    /\ \/ pool.wheap[r].err # NoErr
       \/ pool.wheap[r].i >= chain.n_nuclides[1]
    /\ LET w == pool.wheap[r]
           h == FormReturn([self |-> chain, rates |-> w.rates,
                            matrix |-> w.matrix, err |-> w.err])
       IN  /\ chain' = h.self
           /\ pool' = [pool EXCEPT
                          !.wpc[r] = "done",
                          !.wheap[r] = None,
                          !.results[r] = <<[matrix |-> h.matrix,
                                            err |-> h.err]>>,
                          !.order = Append(@, r)]
    /\ UNCHANGED <<doc, op, err, rates, matrix, found, edit, matrix2>>

NextPar ==
    \E r \in Regions : WorkerStart(r) \/ WorkerStep(r) \/ WorkerReturn(r)

SpecPar == InitPar /\ [][NextPar]_vars

-----------------------------------------------------------------------------
(* Properties of the sequential driver.                                    *)

\* The sum of f[x] over the finite domain of f.
RECURSIVE SumOver(_, _)
SumOver(f, S) ==
    IF S = {} THEN 0
    ELSE LET x == CHOOSE y \in S : TRUE
         IN  f[x] + SumOver(f, S \ {x})

Sum(f) == SumOver(f, DOMAIN f)

Indices(self) == 0..(self.n_nuclides[1] - 1)

\* The sum of column i of m, and the sum of its off-diagonal entries.
ColSum(m, i) == Sum([k \in DOMAIN m |-> m[k][i]])
OffDiagSum(m, i) == Sum([k \in (DOMAIN m) \ {i} |-> m[k][i]])

\* A matrix came back from the last form_matrix call on the chain.
Assembled == op = "form_matrix" /\ err = NoErr

\* None of the paths of nuclide i that form_matrix follows leads to the
\* sentinel.
NoSentinel(self, i) ==
    LET nuc == self.nuclides[i + 1]
    IN  /\ \A j \in 1..nuc.n_decay_paths : nuc.decay_target[j] # "Nothing"
        /\ \A j \in 1..nuc.n_reaction_paths :
              nuc.reaction_target[j] # "Nothing"

\* The branching ratios of nuclide i sum to one, and so do the reference-
\* energy yields of its precursor column if it fissions.
Balanced(self, i) ==
    LET nuc == self.nuclides[i + 1]
        y   == self.yields[1]
    IN  /\ nuc.n_decay_paths # 0 =>
              Sum([j \in 1..nuc.n_decay_paths |-> nuc.branching_ratio[j]])
                  = Den
        /\ \A j \in 1..nuc.n_reaction_paths :
              nuc.reaction_type[j] = "fission" =>
                  Sum([k \in 0..(y.n_fis_prod - 1) |->
                          y.fis_yield_data[k][0][
                              self.precursor_dict[nuc.name]]]) = Den

\* C1 as claimed: every column without a sentinel target balances: the
\* off-diagonal entries of column i sum to minus the diagonal entry.
C1_ConservationAsClaimed ==
    Assembled =>
        \A i \in Indices(chain) :
            NoSentinel(chain, i) =>
                OffDiagSum(matrix, i) = 0 - matrix[i][i]

\* C1 amended: a column without a sentinel target balances when the
\* nuclide's branching ratios sum to one and the reference-energy yields of
\* each of its fission paths sum to one.
C1_Conservation ==
    Assembled =>
        \A i \in Indices(chain) :
            NoSentinel(chain, i) /\ Balanced(chain, i) =>
                OffDiagSum(matrix, i) = 0 - matrix[i][i]

\* A balanced column with a decay path and a reaction path and a loss.
C1_Witness ==
    /\ Assembled
    /\ \E i \in Indices(chain) :
          /\ NoSentinel(chain, i) /\ Balanced(chain, i)
          /\ chain.nuclides[i + 1].n_decay_paths >= 1
          /\ chain.nuclides[i + 1].n_reaction_paths >= 1
          /\ matrix[i][i] < 0 - 2 * Den
          /\ OffDiagSum(matrix, i) > 0

\* Some nuclide with a reaction path has a rate sequence of another length
\* than its reaction-path count.
ShapeMismatch(self, rs) ==
    \E i \in Indices(self) :
        LET nuc == self.nuclides[i + 1]
        IN  /\ nuc.n_reaction_paths >= 1
            /\ Len(rs.rate[nuc.name]) # nuc.n_reaction_paths

\* C2: a rate sequence of the wrong length (shorter or longer) always makes
\* form_matrix fail and return no matrix.
C2_ShapePrecondition ==
    (op = "form_matrix" /\ ShapeMismatch(chain, rates[1])) =>
        (err # NoErr /\ matrix = None)

\* Some nuclide_table of d declares a positive decay_modes or reactions
\* count that differs from the number of children present.
CountMismatch(d) ==
    \E q \in 1..Len(d.decay_constants) :
        LET e == d.decay_constants[q]
        IN  \/ /\ e.decay_modes # None
               /\ e.decay_modes[1] > 0
               /\ e.decay_modes[1] # Len(e.decay_type)
            \/ /\ e.reactions # None
               /\ e.reactions[1] > 0
               /\ e.reactions[1] # Len(e.reaction_type)

\* C3: a declared count that differs from the children present makes
\* xml_read fail.
C3_CountCheck ==
    (op = "xml_read" /\ CountMismatch(doc[1])) => err # NoErr

\* Some decay path or non-fission reaction path of d has a target that is
\* neither the sentinel nor the name of a nuclide_table of d.
UnresolvedTarget(d) ==
    LET names == {d.decay_constants[q].name : q \in 1..Len(d.decay_constants)}
    IN  \E q \in 1..Len(d.decay_constants) :
            LET e == d.decay_constants[q]
            IN  \/ \E c \in 1..Len(e.decay_type) :
                      e.decay_type[c].target \notin names \cup {"Nothing"}
                \/ \E c \in 1..Len(e.reaction_type) :
                      /\ e.reaction_type[c].type # "fission"
                      /\ e.reaction_type[c].target
                            \notin names \cup {"Nothing"}

\* C4: a target that resolves to no nuclide of the description makes
\* xml_read fail.
C4_NameResolution ==
    (op = "xml_read" /\ UnresolvedTarget(doc[1])) => err # NoErr

\* C5: when xml_read fails, the chain object holds nothing of the
\* description: no nuclide, no count, no index entry, no reaction kind, no
\* yield table.
C5_NoPartialChain ==
    (op = "xml_read" /\ err # NoErr) =>
        /\ chain.nuclides = <<>>
        /\ chain.n_nuclides \in {None, <<0>>}
        /\ chain.nuclide_dict = <<>>
        /\ chain.reaction_list = <<>>
        /\ chain.yields = None

\* C7: form_matrix (through matrix_wrapper or directly, returning or
\* raising) and nuc_by_ind leave the chain object and the rate set as they
\* were.
C7_ChainReadOnly ==
    [][op' \in {"form_matrix", "nuc_by_ind", "sentinel"} =>
          (chain' = chain /\ rates' = rates)]_vars

\* A loaded chain with reaction kinds, a matrix assembled from it.
C7_Witness ==
    /\ Assembled
    /\ chain = xml_read(NewChain, doc[1]).self
    /\ Len(chain.reaction_list) >= 2
    /\ rates # None

\* What the retargeted path e contributed to its target's row: branching
\* ratio times decay constant, or the path's rate (times Den, as the
\* matrix entries are).
Contribution(self, rs, e) ==
    LET nuc == self.nuclides[e[1] + 1]
    IN  IF e[2] = "decay"
        THEN nuc.branching_ratio[e[3] + 1] * DecayConstant(nuc.half_life[1])
        ELSE Den * rs.rate[nuc.name][e[3] + 1]

\* The column of the retargeted nuclide lost exactly the path's
\* contribution and no other column changed.
SentinelLoss ==
    LET i == edit[1][1]
    IN  /\ ColSum(matrix2, i)
              = ColSum(matrix, i) - Contribution(chain, rates[1], edit[1])
        /\ \A c \in Indices(chain) \ {i} :
              \A k \in Indices(chain) : matrix2[k][c] = matrix[k][c]

\* C8 as claimed: retargeting one tracked path to the sentinel strictly
\* decreases the column sum, by exactly the path's contribution.
C8_SentinelLossAsClaimed ==
    (op = "sentinel" /\ err = NoErr) =>
        /\ SentinelLoss
        /\ ColSum(matrix2, edit[1][1]) < ColSum(matrix, edit[1][1])

\* C8 amended: the column sum decreases by exactly the path's contribution
\* (strictly when that contribution is positive) and the other columns are
\* unchanged.
C8_SentinelLoss ==
    (op = "sentinel" /\ err = NoErr) =>
        /\ SentinelLoss
        /\ Contribution(chain, rates[1], edit[1]) > 0 =>
              ColSum(matrix2, edit[1][1]) < ColSum(matrix, edit[1][1])

\* A retargeted reaction path of positive rate, and a column that lost it.
C8_Witness ==
    /\ op = "sentinel" /\ err = NoErr
    /\ edit[1][2] = "reaction"
    /\ Contribution(chain, rates[1], edit[1]) > 0
    /\ ColSum(matrix2, edit[1][1]) < ColSum(matrix, edit[1][1])

\* C9: after a load that returned, n_nuclides is the number of entries and
\* the nuclide at every position p is indexed at p.
C9_IndexStability ==
    (op = "xml_read" /\ err = NoErr) =>
        /\ chain.n_nuclides = <<Len(doc[1].decay_constants)>>
        /\ \A p \in Indices(chain) :
              chain.nuclide_dict[chain.nuclides[p + 1].name] = p

\* The reference value of entry (k, i): the terms the paths of nuclide i
\* contribute to row k, summed.
Reference(self, rs, k, i) ==
    LET nuc == self.nuclides[i + 1]
        y   == self.yields[1]
        dc  == IF nuc.n_decay_paths # 0
               THEN DecayConstant(nuc.half_life[1]) ELSE 0
        r   == IF nuc.n_reaction_paths >= 1 THEN rs.rate[nuc.name] ELSE <<>>
        loss ==
            IF k = i
            THEN 0 - Den * dc
                   - Sum([j \in 1..nuc.n_reaction_paths |-> Den * r[j]])
            ELSE 0
        decay ==
            Sum([j \in 1..nuc.n_decay_paths |->
                    IF /\ nuc.decay_target[j] # "Nothing"
                       /\ self.nuclide_dict[nuc.decay_target[j]] = k
                    THEN nuc.branching_ratio[j] * dc ELSE 0])
        capture ==
            Sum([j \in 1..nuc.n_reaction_paths |->
                    IF /\ nuc.reaction_type[j] # "fission"
                       /\ nuc.reaction_target[j] # "Nothing"
                       /\ self.nuclide_dict[nuc.reaction_target[j]] = k
                    THEN Den * r[j] ELSE 0])
        fission ==
            Sum([j \in 1..nuc.n_reaction_paths |->
                    IF nuc.reaction_type[j] = "fission"
                    THEN Sum([p \in 0..(y.n_fis_prod - 1) |->
                                IF self.nuclide_dict[y.name[p + 1]] = k
                                THEN y.fis_yield_data[p][0][
                                         self.precursor_dict[nuc.name]] * r[j]
                                ELSE 0])
                    ELSE 0])
    IN  loss + decay + capture + fission

\* C10: every entry of the returned matrix is the reference sum of the
\* terms of the paths into it; nothing is overwritten.
C10_AdditiveAssembly ==
    Assembled =>
        \A k \in Indices(chain) : \A i \in Indices(chain) :
            matrix[k][i] = Reference(chain, rates[1], k, i)

\* Two paths of one nuclide (a decay and a capture) reach the same other
\* nuclide and its entry holds the sum of both.
C10_Witness ==
    /\ Assembled
    /\ \E i \in Indices(chain) : \E k \in Indices(chain) \ {i} :
          LET nuc == chain.nuclides[i + 1]
          IN  /\ nuc.n_decay_paths >= 1 /\ nuc.n_reaction_paths >= 1
              /\ nuc.decay_target[1] = chain.nuclides[k + 1].name
              /\ nuc.reaction_target[1] = nuc.decay_target[1]
              /\ rates[1].rate[nuc.name][1] > 0
              /\ matrix[k][i] =
                    nuc.branching_ratio[1] * DecayConstant(nuc.half_life[1])
                    + Den * rates[1].rate[nuc.name][1]

-----------------------------------------------------------------------------
(* Properties of the parallel driver.                                      *)

\* C6: whatever the interleaving and the order in which the workers return,
\* slot r holds what a sequential form_matrix call on input tuple r returns.
C6_ParallelEquivalence ==
    \A r \in Regions :
        pool.wpc[r] = "done" =>
            LET input_tuple == pool.tuples[r]
                h == form_matrix(input_tuple[1], input_tuple[2])
            IN  pool.results[r] = <<[matrix |-> h.matrix, err |-> h.err]>>

\* Every worker returned, the last region first, with different matrices in
\* the first two slots.
C6_Witness ==
    /\ \A r \in Regions : pool.wpc[r] = "done"
    /\ pool.order[1] = NRegions
    /\ pool.results[1][1].err = NoErr
    /\ pool.results[1][1].matrix # pool.results[2][1].matrix

=============================================================================
